---- MODULE Spec2Model ----
(***************************************************************************)
(* Model of the configuration loader of src/dependensy_visualiser.py:      *)
(* DependencyVisualizer.load_config with _get_element_text and             *)
(* _validate_config, and the exception handlers around them.               *)
(*                                                                         *)
(* A text is a sequence of one-character strings, so that str.strip,       *)
(* str.lower, str.startswith and str.endswith are computed character by    *)
(* character.  Python's None and an optional value are <<>> and <<v>>.     *)
(* A message is the sequence of the pieces its f-string joins; the         *)
(* Russian literals of the source are written in Latin transliteration     *)
(* (the original is quoted in the comment next to each).                   *)
(***************************************************************************)
EXTENDS Integers, Sequences, FiniteSets, TLC

VARIABLES
    config,     \* contents of the dict object bound to self.config
    source,     \* the source handed to the most recent load_config call
    pre,        \* contents of self.config when that call started
    outcome,    \* how that call ended: returned / raised, warnings printed
    held,       \* <<fields>> of the first returned record, as read at its return
    calls       \* number of load_config calls made on this loader

vars == <<config, source, pre, outcome, held, calls>>

\* ---------------------------------------------------------------- bounds
\* Longest run of white space put before and after a field's text.
MaxPad == 1
\* Longest sequence of load_config calls made on one loader.
MaxCalls == 2

\* ------------------------------------------------------------- Python values
None == <<>>
Some(v) == <<v>>

\* ------------------------------------------------------------- str methods
\* The characters str.strip() removes that occur in the sources modelled.
Whitespace == {" ", "\t", "\n", "\r"}

UpperCase == <<"A","B","C","D","E","F","G","H","I","J","K","L","M",
               "N","O","P","Q","R","S","T","U","V","W","X","Y","Z">>
LowerCase == <<"a","b","c","d","e","f","g","h","i","j","k","l","m",
               "n","o","p","q","r","s","t","u","v","w","x","y","z">>

LowerChar(c) ==
    IF \E i \in 1..Len(UpperCase) : UpperCase[i] = c
    THEN LowerCase[CHOOSE i \in 1..Len(UpperCase) : UpperCase[i] = c]
    ELSE c

\* str.lower()
Lower(s) == [i \in 1..Len(s) |-> LowerChar(s[i])]

RECURSIVE LStrip(_)
LStrip(s) ==
    IF s # <<>> /\ Head(s) \in Whitespace THEN LStrip(Tail(s)) ELSE s

RECURSIVE RStrip(_)
RStrip(s) ==
    IF s # <<>> /\ s[Len(s)] \in Whitespace
    THEN RStrip(SubSeq(s, 1, Len(s) - 1))
    ELSE s

\* str.strip()
Strip(s) == RStrip(LStrip(s))

\* str.startswith(p)
StartsWith(s, p) == Len(s) >= Len(p) /\ SubSeq(s, 1, Len(p)) = p

\* str.endswith(p)
EndsWith(s, p) ==
    Len(s) >= Len(p) /\ SubSeq(s, Len(s) - Len(p) + 1, Len(s)) = p

\* bool(s) of a str: the empty string is false
Truthy(s) == s # <<>>

\* ------------------------------------------------------------- literals
HttpPrefix == <<"h","t","t","p",":","/","/">>
HttpsPrefix == <<"h","t","t","p","s",":","/","/">>
TrueText == <<"t","r","u","e">>
FalseText == <<"f","a","l","s","e">>
TxtSuffix == <<".","t","x","t">>
ValidExtensions ==
    { <<".","p","n","g">>, <<".","j","p","g">>, <<".","j","p","e","g">>,
      <<".","s","v","g">>, <<".","p","d","f">> }

\* The five parameters, in the order load_config extracts them.
FieldOrder ==
    << "package_name", "repository_url", "test_mode",
       "test_repository_path", "output_filename" >>
Fields == { FieldOrder[i] : i \in 1..Len(FieldOrder) }

\* default argument of _get_element_text at each call site
DefaultOf(name) == IF name = "test_mode" THEN Some(FalseText) ELSE None

\* ------------------------------------------------------------- exceptions
ConfigError(msg) == [type |-> "ConfigError", msg |-> msg]

\* "Конфигурационный файл '{config_path}' не найден"
NotFoundMessage(path) ==
    << "Konfiguratsionnyy fayl '", path, "' ne nayden" >>
\* "Нет прав на чтение файла '{config_path}'"
NoReadMessage(path) == << "Net prav na chtenie fayla '", path, "'" >>
\* "Обязательный параметр '{element_name}' отсутствует в конфигурации"
MissingMessage(name) ==
    << "Obyazatelnyy parametr '", name, "' otsutstvuet v konfiguratsii" >>
\* "Параметр '{element_name}' не может быть пустым"
EmptyMessage(name) == << "Parametr '", name, "' ne mozhet byt pustym" >>
\* "Имя пакета не может быть пустым"
PackageEmptyMessage == << "Imya paketa ne mozhet byt pustym" >>
\* "Режим тестирования должен быть 'true' или 'false'"
BadModeMessage == << "Rezhim testirovaniya dolzhen byt 'true' ili 'false'" >>
\* "Путь к тестовому репозиторию обязателен в режиме тестирования"
TestPathMessage ==
    << "Put k testovomu repozitoriyu obyazatelen v rezhime testirovaniya" >>
\* "URL репозитория обязателен в обычном режиме"
UrlEmptyMessage == << "URL repozitoriya obyazatelen v obychnom rezhime" >>
\* "URL репозитория должен начинаться с http:// или https://"
UrlPrefixMessage ==
    << "URL repozitoriya dolzhen nachinatsya s http:// ili https://" >>
\* "Имя выходного файла не может быть пустым"
OutputEmptyMessage == << "Imya vykhodnogo fayla ne mozhet byt pustym" >>
\* "Ошибка парсинга XML файла: "
ParsePrefix == "Oshibka parsinga XML fayla: "
\* "Ошибка загрузки конфигурации: "
LoadPrefix == "Oshibka zagruzki konfiguratsii: "

\* ------------------------------------------------------------- elements
\* root.find(name) of a parsed document: no such element, an element whose
\* .text is None (<x/> or <x></x>), or an element with text.
Absent == [kind |-> "absent", text |-> <<>>]
NoText == [kind |-> "notext", text |-> <<>>]
Text(s) == [kind |-> "text", text |-> s]

\* _get_element_text: [exc |-> None or <<exception>>, val |-> the text]
_get_element_text(root, name, default) ==
    LET element == root[name] IN
    IF element.kind = "absent" THEN
        IF default # None
        THEN [exc |-> None, val |-> default[1]]
        ELSE [exc |-> Some(ConfigError(MissingMessage(name))), val |-> <<>>]
    ELSE IF element.kind = "notext" THEN
        IF default # None
        THEN [exc |-> None, val |-> default[1]]
        ELSE [exc |-> Some(ConfigError(EmptyMessage(name))), val |-> <<>>]
    ELSE [exc |-> None, val |-> Strip(element.text)]

\* ------------------------------------------------------------- the dict
EmptyDict == [k \in {} |-> <<>>]

\* d[k] = v
Put(d, k, v) == [x \in (DOMAIN d) \cup {k} |-> IF x = k THEN v ELSE d[x]]

\* What a run of statements leaves: the dict, the exception raised (None
\* when it ran to its end) and the warnings written to sys.stderr.
Ran(d, exc, warnings) == [config |-> d, exc |-> exc, warnings |-> warnings]

\* the run r followed by the run n of the statements after it, which
\* execute only when r raised nothing
Then(r, n) ==
    IF r.exc # None THEN r
    ELSE Ran(n.config, n.exc, r.warnings \o n.warnings)

\* load_config, lines 55-59: the five assignments, each stored before the
\* next one is evaluated.
RECURSIVE ExtractFrom(_, _, _)
ExtractFrom(d, root, i) ==
    IF i > Len(FieldOrder) THEN Ran(d, None, <<>>)
    ELSE LET name == FieldOrder[i]
             got == _get_element_text(root, name, DefaultOf(name))
         IN  IF got.exc # None THEN Ran(d, got.exc, <<>>)
             ELSE ExtractFrom(Put(d, name, got.val), root, i + 1)

\* ------------------------------------------------------------- _validate_config
\* lines 107-112 (every stored value is a str, so the isinstance test passes)
CheckPackageName(d) ==
    IF ~Truthy(d["package_name"])
    THEN Ran(d, Some(ConfigError(PackageEmptyMessage)), <<>>)
    ELSE Ran(d, None, <<>>)

CheckTestModeNoStore(d) ==
    IF Lower(d["test_mode"]) \notin {TrueText, FalseText}
    THEN Ran(d, Some(ConfigError(BadModeMessage)), <<>>)
    ELSE Ran(d, None, <<>>)

\* lines 114-119
CheckTestMode(d) ==
    LET test_mode == Lower(d["test_mode"]) IN
    IF test_mode \notin {TrueText, FalseText}
    THEN Ran(d, Some(ConfigError(BadModeMessage)), <<>>)
    ELSE Ran(Put(d, "test_mode", test_mode), None, <<>>)

CheckTestPathSkipped(d) == Ran(d, None, <<>>)

\* lines 123-131
CheckTestPath(d) ==
    LET test_path == d["test_repository_path"] IN
    IF ~Truthy(test_path)
    THEN Ran(d, Some(ConfigError(TestPathMessage)), <<>>)
    ELSE IF ~EndsWith(test_path, TxtSuffix)
    THEN Ran(d, None, << <<"txt-warning", test_path>> >>)
    ELSE Ran(d, None, <<>>)

CheckUrlEmptyOnly(d) ==
    IF ~Truthy(d["repository_url"])
    THEN Ran(d, Some(ConfigError(UrlEmptyMessage)), <<>>)
    ELSE Ran(d, None, <<>>)

\* lines 133-143
CheckUrl(d) ==
    LET url == d["repository_url"] IN
    IF ~Truthy(url)
    THEN Ran(d, Some(ConfigError(UrlEmptyMessage)), <<>>)
    ELSE IF ~(StartsWith(url, HttpPrefix) \/ StartsWith(url, HttpsPrefix))
    THEN Ran(d, Some(ConfigError(UrlPrefixMessage)), <<>>)
    ELSE Ran(d, None, <<>>)

CheckModeFieldsSwapped(d) ==
    IF d["test_mode"] = FalseText THEN CheckTestPath(d) ELSE CheckUrl(d)

\* lines 121-143: the branch on the normalised test_mode
CheckModeFields(d) ==
    IF d["test_mode"] = TrueText THEN CheckTestPath(d) ELSE CheckUrl(d)

\* lines 145-157
CheckOutput(d) ==
    LET output_file == d["output_filename"] IN
    IF ~Truthy(output_file)
    THEN Ran(d, Some(ConfigError(OutputEmptyMessage)), <<>>)
    ELSE IF ~(\E ext \in ValidExtensions : EndsWith(Lower(output_file), ext))
    THEN Ran(d, None, << <<"extension-warning", output_file>> >>)
    ELSE Ran(d, None, <<>>)

\* _validate_config, lines 100-157
_validate_config(d) ==
    LET a == CheckPackageName(d)
        b == Then(a, CheckTestMode(a.config))
        c == Then(b, CheckModeFields(b.config))
    IN  Then(c, CheckOutput(c.config))

\* ------------------------------------------------------------- load_config
\* The body of the try block, lines 42-64, on the source src:
\* src.file says what the path names, src.root is the parsed document.
TryBody(d, src) ==
    IF src.file = "missing"                    \* os.path.exists is false
    THEN Ran(d, Some(ConfigError(NotFoundMessage(src.path))), <<>>)
    ELSE IF src.file = "unreadable"            \* os.access(R_OK) is false
    THEN Ran(d, Some(ConfigError(NoReadMessage(src.path))), <<>>)
    ELSE IF src.file = "directory"             \* ET.parse cannot open it
    THEN Ran(d, Some([type |-> "IsADirectoryError",
                      msg |-> <<"[Errno 21] Is a directory: '",
                                src.path, "'">>]), <<>>)
    ELSE IF src.file = "malformed"             \* ET.parse: not well-formed
    THEN Ran(d, Some([type |-> "ParseError",
                      msg |-> <<"mismatched tag: line 1, column 28">>]), <<>>)
    ELSE LET extracted == ExtractFrom(d, src.root, 1)
         IN  Then(extracted, _validate_config(extracted.config))

HandleParseErrorOnly(exc) ==
    IF exc.type = "ParseError"
    THEN ConfigError(<<ParsePrefix>> \o exc.msg)
    ELSE exc

\* The except clauses, lines 66-69, in their order.  Every exception the
\* body raises is an Exception, so the second clause takes all the rest.
Handle(exc) ==
    IF exc.type = "ParseError"
    THEN ConfigError(<<ParsePrefix>> \o exc.msg)
    ELSE ConfigError(<<LoadPrefix>> \o exc.msg)

\* The object a returned reference names: load_config returns self.config
\* itself (line 64), the dict made once in __init__ (line 19).
Deref(ref) == config

NoCall ==
    [kind |-> "none", exc |-> None, ref |-> None, record |-> None,
     warnings |-> <<>>]

\* load_config(config_path), lines 28-69
load_config(src) ==
    LET r == TryBody(config, src) IN
    /\ config' = r.config
    /\ source' = src
    /\ pre' = config
    /\ calls' = calls + 1
    /\ outcome' =
         IF r.exc = None
         THEN [kind |-> "returned", exc |-> None, ref |-> Some("self.config"),
               record |-> Some(r.config), warnings |-> r.warnings]
         ELSE [kind |-> "raised", exc |-> Some(Handle(r.exc[1])),
               ref |-> None, record |-> None, warnings |-> r.warnings]
    /\ held' = IF held = None /\ r.exc = None THEN Some(r.config) ELSE held

\* ------------------------------------------------------------- sources
Spaces(n) == [i \in 1..n |-> " "]
Newlines(n) == [i \in 1..n |-> "\n"]

\* core with up to MaxPad blanks before it and line ends after it; an
\* element with text never has the empty text (its .text is None then)
Padded(core, pad) ==
    { Spaces(l) \o core \o Newlines(r) : l \in 0..pad, r \in 0..pad } \ {<<>>}

Elements(cores, pad) ==
    {Absent, NoText} \cup { Text(t) : t \in UNION { Padded(c, pad) : c \in cores } }

PackageCores == { <<"p">>, <<" ">> }
UrlCores ==
    { <<>>, HttpPrefix \o <<"h">>, HttpsPrefix \o <<"h">>,
      <<"f","t","p",":","/","/","h">> }
ModeCores ==
    { <<>>, TrueText, <<"T","R","U","E">>, <<"T","r","u","e">>,
      FalseText, <<"F","a","l","s","e">>, <<"f","A","l","S","e">>,
      <<"y","e","s">> }
PathCores == { <<" ">>, <<"r">> \o TxtSuffix, <<"r">> }
OutputCores == { <<" ">>, <<"g",".","P","N","G">>, <<"g">> }

Paths == { "config.xml", "nonexistent.xml" }

NoRoot == [f \in Fields |-> Absent]

\* what a path can name other than a well-formed document
BrokenSources ==
    { [path |-> p, file |-> k, root |-> NoRoot] :
        p \in Paths, k \in {"missing", "unreadable", "directory", "malformed"} }

Documents(pkgs, urls, modes, tpaths, outs) ==
    { [path |-> "config.xml", file |-> "document",
       root |-> [f \in Fields |->
                   CASE f = "package_name" -> a
                     [] f = "repository_url" -> b
                     [] f = "test_mode" -> c
                     [] f = "test_repository_path" -> d
                     [] OTHER -> e]] :
        a \in pkgs, b \in urls, c \in modes, d \in tpaths, e \in outs }

\* every source a single call is tried on
Sources ==
    BrokenSources \cup
    Documents(Elements(PackageCores, 0), Elements(UrlCores, MaxPad),
              Elements(ModeCores, MaxPad), Elements(PathCores, 0),
              Elements(OutputCores, 0))

\* the sources a sequence of calls on one loader draws from
SeqSources ==
    BrokenSources \cup
    Documents({Absent, Text(<<"p">>), Text(<<"q">>)},
              {Absent, Text(<<" ">>), Text(HttpsPrefix \o <<"h">>)},
              {Absent, Text(TrueText), Text(<<"T","r","u","e">>), Text(<<"y","e","s">>)},
              {NoText, Text(<<"r">> \o TxtSuffix)},
              {NoText, Text(<<"g",".","P","N","G">>)})

NoSource == [path |-> "", file |-> "none", root |-> NoRoot]

\* ------------------------------------------------------------- behaviours
\* __init__, lines 18-19: an empty dict, no call made yet
Fresh ==
    /\ config = EmptyDict
    /\ pre = EmptyDict
    /\ outcome = NoCall
    /\ held = None
    /\ calls = 0

Init == Fresh /\ source = NoSource

\* any sequence of at most MaxCalls load_config calls on one loader
Next == \E src \in SeqSources : calls < MaxCalls /\ load_config(src)

Spec == Init /\ [][Next]_vars

\* one load_config call on a fresh loader, on any source of Sources
InitLoad == Fresh /\ source \in Sources

NextLoad == calls = 0 /\ load_config(source)

SpecLoad == InitLoad /\ [][NextLoad]_vars

\* ------------------------------------------------------------- observations
\* What the properties below say about a source and an outcome.  They are
\* stated on the characters of the source text, not through the operators
\* the loader is modelled with.
Done == outcome.kind # "none"
Returned == outcome.kind = "returned"
Raised == outcome.kind = "raised"
IsDocument == source.file = "document"
Raw(f) == source.root[f]
Record == outcome.record[1]

NonBlank(s) == { i \in 1..Len(s) : s[i] \notin Whitespace }

\* s without its leading and trailing white space
Trimmed(s) ==
    IF NonBlank(s) = {} THEN <<>>
    ELSE LET lo == CHOOSE i \in NonBlank(s) : \A j \in NonBlank(s) : i <= j
             hi == CHOOSE i \in NonBlank(s) : \A j \in NonBlank(s) : i >= j
         IN  SubSeq(s, lo, hi)

\* t is s with every upper-case letter replaced by its lower-case one
IsLowerCaseOf(t, s) ==
    /\ Len(t) = Len(s)
    /\ \A i \in 1..Len(s) :
         \/ \E k \in 1..Len(UpperCase) : s[i] = UpperCase[k] /\ t[i] = LowerCase[k]
         \/ (\A k \in 1..Len(UpperCase) : s[i] # UpperCase[k]) /\ t[i] = s[i]

HasPrefix(s, p) == Len(p) <= Len(s) /\ \A i \in 1..Len(p) : s[i] = p[i]

ValidUrl(u) == u # <<>> /\ (HasPrefix(u, HttpPrefix) \/ HasPrefix(u, HttpsPrefix))

\* the field is missing, has no text, or has only white space
Blank(f) == Raw(f).kind # "text" \/ Trimmed(Raw(f).text) = <<>>

\* the document's test_mode resolves to the text t (the default is "false")
ModeResolvesTo(t) ==
    /\ IsDocument
    /\ IF Raw("test_mode").kind = "text"
       THEN IsLowerCaseOf(t, Trimmed(Raw("test_mode").text))
       ELSE t = FalseText

UrlUsable == ~Blank("repository_url") /\ ValidUrl(Trimmed(Raw("repository_url").text))

\* ------------------------------------------------------------- claims
\* C1: when load_config succeeds, the record's test_mode is exactly "true"
\* or "false", and is the lower-cased trimmed test_mode text of the source.
C1_TestModeNormalised ==
    Returned =>
        /\ Record["test_mode"] \in {TrueText, FalseText}
        /\ Raw("test_mode").kind = "text" =>
             IsLowerCaseOf(Record["test_mode"], Trimmed(Raw("test_mode").text))

C1_Witness ==
    /\ Returned
    /\ Raw("test_mode") = Text(<<" ","T","R","U","E","\n">>)
    /\ Record["test_mode"] = TrueText

\* C2: a source whose test_mode resolves to "false" (also by default) and
\* whose repository_url is empty after trimming, or lacks the http:// or
\* https:// prefix, never yields a record.
C2_NonTestModeNeedsUrl ==
    (Done /\ ModeResolvesTo(FalseText) /\ ~UrlUsable) => Raised

C2_Witness ==
    /\ Raised
    /\ ModeResolvesTo(FalseText)
    /\ ~Blank("repository_url") /\ ~UrlUsable
    /\ outcome.exc[1].msg = <<LoadPrefix>> \o UrlPrefixMessage

\* C3: a source whose test_mode resolves to "true" and whose
\* test_repository_path is empty after trimming never yields a record,
\* whatever its repository_url.
C3_TestModeNeedsPath ==
    (Done /\ ModeResolvesTo(TrueText) /\ Blank("test_repository_path")) => Raised

C3_Witness ==
    /\ Raised
    /\ ModeResolvesTo(TrueText)
    /\ UrlUsable
    /\ Raw("test_repository_path").kind = "text"
    /\ outcome.exc[1].msg = <<LoadPrefix>> \o TestPathMessage

\* the two sourcing conditions of a returned record
UrlCondition == ValidUrl(Record["repository_url"])
TestCondition ==
    Record["test_mode"] = TrueText /\ Record["test_repository_path"] # <<>>

\* C4 as stated: every returned record satisfies exactly one of the two
\* conditions, never both and never neither.
C4_ExactlyOneMode == Returned => (UrlCondition # TestCondition)

\* C4 as amended: every returned record satisfies at least one of the two
\* conditions (never neither); both can hold together.
C4_AtLeastOneMode == Returned => (UrlCondition \/ TestCondition)

C4_Witness == Returned /\ UrlCondition /\ TestCondition

\* C5: after a load_config call that fails, the loader's config is as it
\* was before the call.
C5_FailureLeavesConfig == Raised => config = pre

\* C6: no later call changes any field of a record an earlier successful
\* call returned.
C6_ReturnedRecordFrozen == held # None => Deref("self.config") = held[1]

\* the cases the contract lists as failures
ListedFailure ==
    \/ source.file \in {"missing", "unreadable", "malformed"}
    \/ /\ IsDocument
       /\ \/ Blank("package_name")
          \/ Blank("output_filename")
          \/ ~(ModeResolvesTo(TrueText) \/ ModeResolvesTo(FalseText))
          \/ ModeResolvesTo(FalseText) /\ ~UrlUsable
          \/ ModeResolvesTo(TrueText) /\ Blank("test_repository_path")

\* C7: every failing load_config call fails with a ConfigError and nothing
\* else, and each listed failure does fail.
C7_OnlyConfigError ==
    Done =>
        /\ Raised => outcome.exc[1].type = "ConfigError"
        /\ ListedFailure => Raised

C7_Witness ==
    /\ Raised
    /\ source.file = "directory"
    /\ outcome.exc[1].type = "ConfigError"
    /\ outcome.exc[1].msg[1] = LoadPrefix

\* the source with its test_mode element replaced by e
WithMode(src, e) == [src EXCEPT !.root["test_mode"] = e]

\* C8: a source whose test_mode is missing, has no text or has only white
\* space loads or fails exactly as the same source with test_mode "false",
\* and a returned record has test_mode "false".
C8_BlankModeIsDefault ==
    (Done /\ IsDocument /\ Blank("test_mode")) =>
        LET other == TryBody(EmptyDict, WithMode(source, Text(FalseText)))
        IN  /\ Returned <=> other.exc = None
            /\ Returned => Record["test_mode"] = FalseText

\* C9: with package_name and output_filename non-empty, test mode with a
\* non-empty test path loads without a repository_url, and non-test mode
\* with a valid URL loads without a test_repository_path.
C9_OnlyOwnFieldRequired ==
    (Done /\ IsDocument /\ ~Blank("package_name") /\ ~Blank("output_filename")) =>
        /\ (ModeResolvesTo(TrueText) /\ ~Blank("test_repository_path")
              /\ Blank("repository_url")) => Returned
        /\ (ModeResolvesTo(FalseText) /\ UrlUsable
              /\ Blank("test_repository_path")) => Returned

\* C10: on a path that does not exist the call fails with a ConfigError
\* whose message is exactly the not-found message for that path.
C10_NotFoundMessageExact ==
    (Done /\ source.file = "missing") =>
        /\ Raised
        /\ outcome.exc[1].type = "ConfigError"
        /\ outcome.exc[1].msg = NotFoundMessage(source.path)

====
